---- MODULE Spec2Model ----
(***************************************************************************)
(* Model of pilot/pkg/status/resourcelock.go: the WorkQueue (pending keys  *)
(* plus a cache of coalesced per-controller status) and the WorkerPool     *)
(* that drains it with at most maxWorkers goroutines, one per resource.    *)
(*                                                                         *)
(* Each WorkQueue method takes wq.lock on entry and releases it on return  *)
(* without calling out, so a method is one atomic step.  wp.lock is        *)
(* modelled explicitly: a worker keeps it across Length/Pop/Delete.        *)
(* maybeAddWorker's locked section touches shared state only through       *)
(* q.Length, so it is one step taken when wp.lock is free.                 *)
(***************************************************************************)
EXTENDS Integers, Sequences, FiniteSets, TLC

\* ------------------------------------------------------------- bounds
MaxTasks == 3
MaxWorkersBound == 2
NCallers == 2

\* ------------------------------------------------------------- domains
Names == {"a", "b"}
GenStrs == {"1", "2"}
Generations == {1, 2, 12}
Controllers == {"c1", "c2"}
Progress == {"p", "q"}

NProcs == MaxWorkersBound + 1
Procs == 1..NProcs
NoOne == 0
Nil == "nil"

Resource == [GroupVersionResource : {"gvr"}, Namespace : {"ns"},
             Name : Names, Generation : GenStrs]
Res(name, gen) == [GroupVersionResource |-> "gvr", Namespace |-> "ns",
                   Name |-> name, Generation |-> gen]
ZeroResource == [GroupVersionResource |-> "", Namespace |-> "",
                 Name |-> "", Generation |-> ""]

convert(i) ==
    [GroupVersionResource |-> i.GroupVersionResource,
     Namespace |-> i.Namespace,
     Name |-> i.Name]

lockResource == {convert(r) : r \in Resource}

\* A Go map from *Controller to a progress value: Nil marks an absent key.
EmptyMap == [c \in Controllers |-> Nil]
MapKeys(m) == {c \in Controllers : m[c] # Nil}

\* The calls of Push that callers make: resource "a" is pushed at two
\* generations, by two controllers, one of which changes its mind; resource
\* "b" is the other resource the workers may be busy with.
Pushes ==
    {<<Res("a", g), c[1], c[2]>> :
        g \in GenStrs, c \in {<<"c1", "p">>, <<"c1", "q">>, <<"c2", "p">>}}
    \cup {<<Res("b", "1"), "c1", "p">>}

\* With more than one worker the callers push one update per resource: what
\* is then explored is the interleaving of the workers, not the data.
PlainPushes == {<<Res("a", "1"), "c1", "p">>, <<Res("b", "1"), "c1", "p">>}

Workload(mw) == IF mw <= 1 THEN Pushes ELSE PlainPushes

\* strconv.FormatInt(n, 10)
DigitChar(d) ==
    CASE d = 0 -> "0" [] d = 1 -> "1" [] d = 2 -> "2" [] d = 3 -> "3"
      [] d = 4 -> "4" [] d = 5 -> "5" [] d = 6 -> "6" [] d = 7 -> "7"
      [] d = 8 -> "8" [] d = 9 -> "9"

RECURSIVE FormatUint(_)
FormatUint(n) ==
    IF n < 10 THEN DigitChar(n)
    ELSE FormatUint(n \div 10) \o DigitChar(n % 10)

FormatInt(n) == IF n < 0 THEN "-" \o FormatUint(0 - n) ELSE FormatUint(n)

VARIABLES
    tasks,             \* wq.tasks
    cache,             \* wq.cache: lockResource -> cacheEntry
    closing,           \* wp.closing
    workerCount,       \* wp.workerCount
    maxWorkers,        \* wp.maxWorkers
    currentlyWorking,  \* wp.currentlyWorking
    lock,              \* holder of wp.lock
    pc,                \* position of each worker goroutine
    target,            \* worker local: target
    perControllerWork, \* worker local: perControllerWork
    aliased,           \* workers whose perControllerWork is the very map the cache holds
    cfg,               \* worker local: cfg (nil, or a config at some generation)
    x,                 \* worker local: the GenerationProvider handed on
    adding,            \* callers between q.Push and maybeAddWorker
    pushed,            \* history: per key, the updates pushed since its last Delete/Pop
    fresh,             \* history: that run of pushes began with the key unknown to the queue
    lastTarget,        \* history: the Resource of the latest Push, while the entry lives
    delPending,        \* history: a pending, unpopped task was deleted and not pushed since
    deleted            \* history: a Delete call has removed a cache entry

vars == <<tasks, cache, closing, workerCount, maxWorkers,
          currentlyWorking, lock, pc, target, perControllerWork, aliased,
          cfg, x, adding, pushed, fresh, lastTarget, delPending, deleted>>

\* IstioStatus.ObservedGeneration of a status no one has set it on.
Unobserved == 0
NoStatus == [og |-> Unobserved, merged |-> <<>>]
NoCache == [k \in {} |-> NoStatus]

\* ------------------------------------------------------------- WorkQueue
\* The element is left where it is.
KeepAt(s, i) == s

\* The last element is removed in place of the i-th.
RemoveLast(s, i) == SubSeq(s, 1, Len(s) - 1)

\* append(wq.tasks[:i], wq.tasks[i+1:]...)
RemoveAt(s, i) == SubSeq(s, 1, i - 1) \o SubSeq(s, i + 1, Len(s))

Occurrences(s, k) == Cardinality({i \in 1..Len(s) : s[i] = k})

\* Push that appends the key whether or not the entry exists.
WqPushAppends(ts, c, t, ctl, progress) ==
    LET key == convert(t) IN
    [tasks |-> Append(ts, key),
     cache |-> [k \in DOMAIN c \cup {key} |->
                   IF k # key THEN c[k]
                   ELSE IF key \in DOMAIN c
                        THEN [c[k] EXCEPT !.perControllerStatus[ctl] = progress]
                        ELSE [cacheResource |-> t,
                              perControllerStatus |->
                                  [EmptyMap EXCEPT ![ctl] = progress]]]]

\* WorkQueue.Push, the part under wq.lock.
WqPush(ts, c, t, ctl, progress) ==
    LET key == convert(t) IN
    IF key \in DOMAIN c
    THEN [tasks |-> ts,
          cache |-> [c EXCEPT ![key].perControllerStatus[ctl] = progress]]
    ELSE [tasks |-> Append(ts, key),
          cache |-> [k \in DOMAIN c \cup {key} |->
                        IF k = key
                        THEN [cacheResource |-> t,
                              perControllerStatus |->
                                  [EmptyMap EXCEPT ![ctl] = progress]]
                        ELSE c[k]]]

\* A Go map is a reference: the map Pop handed to a worker is the one the
\* cache entry holds, until that entry is deleted; a Push into the entry
\* writes the worker's map too.
Shares(w, key) == w \in aliased /\ convert(target[w]) = key

\* The scan of Pop without the exclusion test.
FirstPending(ts, exclusion) == IF Len(ts) > 0 THEN 1 ELSE 0

\* Index of the first task not in exclusion, 0 when there is none.
FirstNotExcluded(ts, exclusion) ==
    IF \E i \in 1..Len(ts) : ts[i] \notin exclusion
    THEN CHOOSE i \in 1..Len(ts) :
            /\ ts[i] \notin exclusion
            /\ \A j \in 1..(i - 1) : ts[j] \in exclusion
    ELSE 0

\* Pop that leaves a key without cache entry in the sequence.
WqPopKeeps(ts, c, exclusion) ==
    LET i == FirstNotExcluded(ts, exclusion) IN
    IF i = 0 \/ ts[i] \notin DOMAIN c
    THEN [target |-> ZeroResource, progress |-> EmptyMap, tasks |-> ts]
    ELSE [target |-> c[ts[i]].cacheResource,
          progress |-> c[ts[i]].perControllerStatus,
          tasks |-> RemoveAt(ts, i)]

\* WorkQueue.Pop
WqPop(ts, c, exclusion) ==
    LET i == FirstNotExcluded(ts, exclusion) IN
    IF i = 0
    THEN [target |-> ZeroResource, progress |-> EmptyMap, tasks |-> ts]
    ELSE IF ts[i] \notin DOMAIN c
         THEN [target |-> ZeroResource, progress |-> EmptyMap,
               tasks |-> RemoveAt(ts, i)]
         ELSE [target |-> c[ts[i]].cacheResource,
               progress |-> c[ts[i]].perControllerStatus,
               tasks |-> RemoveAt(ts, i)]

\* WorkQueue.Length
WqLength(ts) == Len(ts)

\* Delete that leaves the entry in the cache.
WqDeleteKeeps(c, t) == c

\* Delete that empties the cache.
WqDeleteAll(c, t) == [k \in {} |-> c[k]]

\* WorkQueue.Delete
WqDelete(c, t) == [k \in DOMAIN c \ {convert(t)} |-> c[k]]

\* ------------------------------------------------------------- history
EmptyRun == [c \in Controllers |-> Nil]

\* A key leaves the pending sequence or the cache: its run of pushes is over.
EndRun(k) ==
    /\ pushed' = [pushed EXCEPT ![k] = EmptyRun]
    /\ fresh' = [fresh EXCEPT ![k] = FALSE]

Forget(k) == lastTarget' = [lastTarget EXCEPT ![k] = ZeroResource]

\* ------------------------------------------------------------- WorkerPool
Reserved == {w \in Procs : pc[w] = "reserved"}
LiveWorkers == {w \in Procs : pc[w] \notin {"none", "reserved"}}
FreeSlot == CHOOSE w \in Procs : pc[w] = "none" /\ \A v \in Procs : pc[v] = "none" => w <= v

\* WorkerPool.Push, first half: wp.q.Push(target, controller, context)
Push(t, ctl, progress) ==
    LET key == convert(t)
        r == WqPush(tasks, cache, t, ctl, progress)
    IN
    /\ adding + Cardinality(Reserved) < NCallers
    /\ Len(r.tasks) <= MaxTasks
    /\ tasks' = r.tasks
    /\ cache' = r.cache
    /\ perControllerWork' =
          [w \in Procs |->
              IF key \in DOMAIN cache /\ Shares(w, key)
              THEN r.cache[key].perControllerStatus
              ELSE perControllerWork[w]]
    /\ adding' = adding + 1
    /\ pushed' = [pushed EXCEPT ![key][ctl] = progress]
    /\ fresh' = [fresh EXCEPT ![key] =
                    IF pushed[key] = EmptyRun
                    THEN key \notin DOMAIN cache /\ Occurrences(tasks, key) = 0
                    ELSE @]
    /\ lastTarget' = [lastTarget EXCEPT ![key] = t]
    /\ delPending' = [delPending EXCEPT ![key] = FALSE]
    /\ UNCHANGED <<closing, workerCount, maxWorkers, currentlyWorking, lock,
                   pc, target, aliased, cfg, x, deleted>>

\* The capacity test off by one.
AtCapacityOffByOne(wc, mw, len) == wc > mw \/ len = 0

\* The test that makes maybeAddWorker return without adding a worker.
AtCapacity(wc, mw, len) == wc >= mw \/ len = 0

\* A worker is started without being counted.
NoIncrement(n) == n

\* wp.workerCount++
Increment(n) == n + 1

\* WorkerPool.Push, second half: maybeAddWorker up to the go statement.
MaybeAddWorker ==
    /\ adding > 0
    /\ lock = NoOne
    /\ adding' = adding - 1
    /\ IF AtCapacity(workerCount, maxWorkers, WqLength(tasks))
       THEN UNCHANGED <<workerCount, pc>>
       ELSE /\ \E w \in Procs : pc[w] = "none"
            /\ workerCount' = Increment(workerCount)
            /\ pc' = [pc EXCEPT ![FreeSlot] = "reserved"]
    /\ UNCHANGED <<tasks, cache, closing, maxWorkers, currentlyWorking,
                   lock, target, perControllerWork, aliased, cfg, x,
                   pushed, fresh, lastTarget, delPending, deleted>>

\* go func() { ... }: the worker goroutine starts.
StartWorker(w) ==
    /\ pc[w] = "reserved"
    /\ pc' = [pc EXCEPT ![w] = "top"]
    /\ UNCHANGED <<tasks, cache, closing, workerCount, maxWorkers,
                   currentlyWorking, lock, target, perControllerWork, aliased, cfg, x,
                   adding, pushed, fresh, lastTarget, delPending, deleted>>

\* WorkerPool.Delete
Delete(t) ==
    LET key == convert(t) IN
    /\ cache' = WqDelete(cache, t)
    /\ aliased' = {w \in aliased : convert(target[w]) # key}
    /\ delPending' = [delPending EXCEPT ![key] =
            \/ @
            \/ /\ key \in DOMAIN cache
               /\ Occurrences(tasks, key) > 0
               /\ \A w \in Procs : ~Shares(w, key)]
    /\ deleted' = (deleted \/ key \in DOMAIN cache)
    /\ EndRun(key)
    /\ Forget(key)
    /\ UNCHANGED <<tasks, closing, workerCount, maxWorkers, currentlyWorking,
                   lock, pc, target, perControllerWork, cfg, x, adding>>

\* WorkerPool.Run: the goroutine that waits for ctx.Done() and sets closing.
Run ==
    /\ ~closing
    /\ lock = NoOne
    /\ closing' = TRUE
    /\ UNCHANGED <<tasks, cache, workerCount, maxWorkers,
                   currentlyWorking, lock, pc, target, perControllerWork, aliased,
                   cfg, x, adding, pushed, fresh, lastTarget, delPending, deleted>>

\* workerCount is a uint: decrementing 0 wraps around to the largest value,
\* which stands here as the largest integer TLC represents.
UintMax == 2147483647
\* A worker that leaves without giving its place back.
KeepCount(n) == n

\* wp.workerCount--
Decrement(n) == IF n = 0 THEN UintMax ELSE n - 1

\* The exit test without the closing flag.
ShouldExitWhenEmpty(cl, len) == len = 0

\* The exit test without the empty queue: an idle worker stays.
ShouldExitOnClosing(cl, len) == cl

\* The test at the top of the worker loop that ends the worker.
ShouldExit(cl, len) == cl \/ len = 0

\* Top of the worker loop: wp.lock.Lock(), then exit or go on holding the lock.
WorkerTop(w) ==
    /\ pc[w] = "top"
    /\ lock = NoOne
    /\ IF ShouldExit(closing, WqLength(tasks))
       THEN /\ workerCount' = Decrement(workerCount)
            /\ pc' = [pc EXCEPT ![w] = "none"]
            /\ UNCHANGED lock
       ELSE /\ lock' = w
            /\ pc' = [pc EXCEPT ![w] = "pop"]
            /\ UNCHANGED workerCount
    /\ UNCHANGED <<tasks, cache, closing, maxWorkers, currentlyWorking,
                   target, perControllerWork, aliased, cfg, x, adding,
                   pushed, fresh, lastTarget, delPending, deleted>>

\* The worker restarts its loop without unlocking.
ContinueLocked(w) == w

\* wp.lock.Unlock() before continue: the lock has no holder.
UnlockToContinue(w) == NoOne

\* target, perControllerWork := wp.q.Pop(wp.currentlyWorking), and the zero test.
WorkerPop(w) ==
    LET r == WqPop(tasks, cache, currentlyWorking)
        i == FirstNotExcluded(tasks, currentlyWorking)
    IN
    /\ pc[w] = "pop"
    /\ lock = w
    /\ tasks' = r.tasks
    /\ IF r.target = ZeroResource
       THEN /\ lock' = UnlockToContinue(w)
            /\ pc' = [pc EXCEPT ![w] = "top"]
            /\ UNCHANGED <<target, perControllerWork, aliased>>
       ELSE /\ target' = [target EXCEPT ![w] = r.target]
            /\ perControllerWork' = [perControllerWork EXCEPT ![w] = r.progress]
            /\ aliased' = aliased \cup {w}
            /\ pc' = [pc EXCEPT ![w] = "delete"]
            /\ UNCHANGED lock
    /\ IF i # 0
       THEN EndRun(tasks[i])
       ELSE UNCHANGED <<pushed, fresh>>
    /\ UNCHANGED <<cache, closing, workerCount, maxWorkers,
                   currentlyWorking, cfg, x, adding, lastTarget, delPending, deleted>>

\* The worker goes to work without unlocking.
KeepLock(w) == w

\* wp.lock.Unlock() once the key is marked: the lock has no holder.
UnlockForWork(w) == NoOne

\* wp.q.Delete(target); wp.currentlyWorking[convert(target)] = struct{}{}; Unlock
WorkerDelete(w) ==
    LET key == convert(target[w]) IN
    /\ pc[w] = "delete"
    /\ lock = w
    /\ cache' = WqDelete(cache, target[w])
    /\ aliased' = {v \in aliased : convert(target[v]) # key}
    /\ currentlyWorking' = currentlyWorking \cup {key}
    /\ lock' = UnlockForWork(w)
    /\ pc' = [pc EXCEPT ![w] = "get"]
    /\ EndRun(key)
    /\ Forget(key)
    /\ UNCHANGED <<tasks, closing, workerCount, maxWorkers, target,
                   perControllerWork, cfg, x, adding, delPending, deleted>>

\* The write test without the generation comparison.
ShouldWriteAnyGeneration(got, t) == ~got.isNil

\* cfg != nil && strconv.FormatInt(cfg.Generation, 10) == target.Generation
ShouldWrite(got, t) == ~got.isNil /\ FormatInt(got.Generation) = t.Generation

\* What wp.get may return: nil, or a config at some generation.
NilCfg == [isNil |-> TRUE, Generation |-> 0]
Configs == {NilCfg} \cup {[isNil |-> FALSE, Generation |-> g] : g \in Generations}

\* cfg := wp.get(target), with the nil and generation tests.  A local
\* variable the iteration no longer reads (perControllerWork past the range
\* loop, x past the write) is put back to its zero value.
WorkerGet(w) ==
    /\ pc[w] = "get"
    /\ \E got \in Configs :
          /\ cfg' = [cfg EXCEPT ![w] = got]
          /\ IF ShouldWrite(got, target[w])
             THEN /\ pc' = [pc EXCEPT ![w] = "merge"]
                  /\ UNCHANGED perControllerWork
             ELSE /\ pc' = [pc EXCEPT ![w] = "unmark"]
                  /\ perControllerWork' = [perControllerWork EXCEPT ![w] = EmptyMap]
    /\ UNCHANGED <<tasks, cache, closing, workerCount, maxWorkers,
                   currentlyWorking, lock, target, aliased, x,
                   adding, pushed, fresh, lastTarget, delPending, deleted>>

\* GetOGProvider(cfg.Status): a provider over the status, or an error.
GetOGProvider == {"ok", "err"}

\* x.SetObservedGeneration(cfg.Generation), on the branch the code takes it.
ObservedGeneration(outcome, g) == IF outcome = "ok" THEN g ELSE Unobserved

\* The orders in which range may visit the keys of a map.
RangeOrders(m) ==
    {s \in [1..Cardinality(MapKeys(m)) -> MapKeys(m)] :
        \A i, j \in DOMAIN s : s[i] = s[j] => i = j}

\* A loop that stops after the first controller.
MergeFirst(m, order) == [n \in {i \in DOMAIN order : i = 1} |-> <<order[n], m[order[n]]>>]

\* for c, i := range perControllerWork { x = c.fn(x, i) }
MergeAll(m, order) == [n \in DOMAIN order |-> <<order[n], m[order[n]]>>]

\* The provider lookup and the merge loop.
WorkerMerge(w) ==
    /\ pc[w] = "merge"
    /\ \E outcome \in GetOGProvider :
       \E order \in RangeOrders(perControllerWork[w]) :
          x' = [x EXCEPT ![w] =
                  [og |-> ObservedGeneration(outcome, cfg[w].Generation),
                   merged |-> MergeAll(perControllerWork[w], order)]]
    /\ pc' = [pc EXCEPT ![w] = "write"]
    /\ UNCHANGED <<tasks, cache, closing, workerCount, maxWorkers,
                   currentlyWorking, lock, target, perControllerWork, aliased, cfg,
                   adding, pushed, fresh, lastTarget, delPending, deleted>>

\* wp.write(cfg, x) returns.
WorkerWrite(w) ==
    /\ pc[w] = "write"
    /\ pc' = [pc EXCEPT ![w] = "unmark"]
    /\ x' = [x EXCEPT ![w] = NoStatus]
    /\ perControllerWork' = [perControllerWork EXCEPT ![w] = EmptyMap]
    /\ UNCHANGED <<tasks, cache, closing, workerCount, maxWorkers,
                   currentlyWorking, lock, target, aliased, cfg,
                   adding, pushed, fresh, lastTarget, delPending, deleted>>

\* The mark is left in the set.
StillMarked(cw, key) == cw

\* delete(wp.currentlyWorking, convert(target))
Unmarked(cw, key) == cw \ {key}

\* wp.lock.Lock(); delete(wp.currentlyWorking, convert(target)); wp.lock.Unlock()
WorkerUnmark(w) ==
    /\ pc[w] = "unmark"
    /\ lock = NoOne
    /\ currentlyWorking' = Unmarked(currentlyWorking, convert(target[w]))
    /\ pc' = [pc EXCEPT ![w] = "top"]
    /\ target' = [target EXCEPT ![w] = ZeroResource]
    /\ cfg' = [cfg EXCEPT ![w] = NilCfg]
    /\ UNCHANGED <<tasks, cache, closing, workerCount, maxWorkers, lock,
                   perControllerWork, aliased,
                   x, adding, pushed, fresh, lastTarget, delPending, deleted>>

\* ------------------------------------------------------------- claims
KeyOf(w) == convert(target[w])
\* A worker between marking its key in-flight and removing the mark.
InSection(w) == pc[w] \in {"get", "merge", "write", "unmark"}
Pending(k) == Occurrences(tasks, k) > 0

\* C1: per-resource mutual exclusion: no two workers are in their
\* get/merge/write section for the same key, every worker in its section
\* holds its key in the in-flight set, and so no two workers are in the
\* writer for the same key.
C1_MutualExclusion ==
    /\ \A v, w \in Procs :
          (v # w /\ InSection(v) /\ InSection(w)) => KeyOf(v) # KeyOf(w)
    /\ \A w \in Procs : InSection(w) => KeyOf(w) \in currentlyWorking
    /\ Cardinality(currentlyWorking) = Cardinality({w \in Procs : InSection(w)})

\* Two workers are at work while the key of one of them is pending again.
C1_Witness ==
    \E v, w \in Procs :
        /\ v # w /\ InSection(v) /\ InSection(w)
        /\ Pending(KeyOf(v)) /\ KeyOf(v) \in DOMAIN cache

\* C2 as stated: after one or more pushes of a key with no Delete and no Pop
\* of it in between, the key is pending exactly once and its entry holds
\* each pushing controller's latest update.
C2_AsStated ==
    \A k \in lockResource :
        pushed[k] # EmptyRun =>
            /\ Occurrences(tasks, k) = 1
            /\ k \in DOMAIN cache
            /\ \A c \in Controllers :
                  pushed[k][c] # Nil =>
                      cache[k].perControllerStatus[c] = pushed[k][c]

\* C2 amended: the same, for pushes that begin when the key is in neither
\* the pending sequence nor the cache; the entry then holds exactly the
\* latest update of each controller that pushed.
C2_Coalescing ==
    \A k \in lockResource :
        (pushed[k] # EmptyRun /\ fresh[k]) =>
            /\ Occurrences(tasks, k) = 1
            /\ k \in DOMAIN cache
            /\ cache[k].perControllerStatus = pushed[k]

\* Both controllers pushed resource "a", the first one last with "q".
C2_Witness ==
    \E k \in lockResource :
        /\ fresh[k]
        /\ pushed[k] = [c \in Controllers |-> IF c = "c1" THEN "q" ELSE "p"]

\* C3: the snapshot in the cache entry of a key is the Resource of the
\* latest Push for that key.
C3_LatestSnapshot ==
    \A k \in DOMAIN cache :
        lastTarget[k] # ZeroResource => cache[k].cacheResource = lastTarget[k]

\* C4: the live worker goroutines never outnumber maxWorkers.
C4_WorkerBound ==
    /\ Cardinality(LiveWorkers) + Cardinality(Reserved) <= maxWorkers
    /\ workerCount <= maxWorkers

\* All workers are running and a caller has pushed one more task.
C4_Witness ==
    /\ maxWorkers >= 1
    /\ Cardinality(LiveWorkers) = maxWorkers
    /\ adding > 0
    /\ Len(tasks) > 0

\* C5 as stated: once a pending, unpopped task is deleted and its key is not
\* pushed again, the writer is not invoked for that key.
C5_AsStated ==
    \A k \in lockResource :
        delPending[k] => \A w \in Procs : ~(pc[w] = "write" /\ KeyOf(w) = k)

\* C5 amended: once a pending, unpopped task is deleted and its key is not
\* pushed again, the key has no cache entry and no worker pops a task for
\* it, so neither the writer nor a merge function sees the deleted task; a
\* worker that popped an earlier task of the key may still write that one.
C5_DeletionCorrectness ==
    /\ [](\A k \in lockResource : delPending[k] => k \notin DOMAIN cache)
    /\ [][\A k \in lockResource : \A w \in Procs :
            (delPending[k] /\ pc[w] = "pop") =>
                ~(pc'[w] = "delete" /\ convert(target'[w]) = k)]_vars

\* The deleted key has left the pending sequence and no worker has it.
C5_Witness ==
    \E k \in lockResource :
        /\ delPending[k]
        /\ ~Pending(k)
        /\ \A w \in Procs : KeyOf(w) # k

\* The decimal text of the generations the getter returns.
GenerationText(g) == CASE g = 1 -> "1" [] g = 2 -> "2" [] g = 12 -> "12"

Fetched(w) ==
    /\ ~cfg[w].isNil
    /\ GenerationText(cfg[w].Generation) = target[w].Generation

\* C6: a worker is in the merge chain or the writer only with a fetched
\* config whose generation, in decimal, is the task's generation; a worker
\* whose getter returned nothing or another generation goes straight to
\* removing its in-flight mark, and leaves the queue as it was.
C6_WriteGuard ==
    /\ [](\A w \in Procs : pc[w] \in {"merge", "write"} => Fetched(w))
    /\ [][\A w \in Procs :
            /\ (pc[w] = "get" /\ pc'[w] # "get" /\ ~Fetched(w)')
                  => (pc'[w] = "unmark" /\ tasks' = tasks /\ cache' = cache)
            /\ (pc'[w] = "write" /\ pc[w] # "write") => pc[w] = "merge"
            /\ (pc'[w] = "merge" /\ pc[w] # "merge") => pc[w] = "get"]_vars

\* A task was dropped because the getter returned another generation.
C6_Witness ==
    \E w \in Procs :
        /\ pc[w] = "unmark"
        /\ ~cfg[w].isNil
        /\ GenerationText(cfg[w].Generation) # target[w].Generation

\* C7: whenever the writer is invoked, the status handed on carries the
\* fetched config's generation as its observed generation.
C7_GenerationPropagation ==
    \A w \in Procs : pc[w] = "write" => x[w].og = cfg[w].Generation

\* C8: when the writer is invoked, every controller of the task's pending
\* map has been merged exactly once with its update, one after the other,
\* and nothing else has; the writer is then left once, for the in-flight
\* mark to be removed.
C8_MergeAllWriteOnce ==
    /\ [](\A w \in Procs :
            pc[w] = "write" =>
                /\ Len(x[w].merged) = Cardinality(MapKeys(perControllerWork[w]))
                /\ \A c \in MapKeys(perControllerWork[w]) :
                      Cardinality({i \in DOMAIN x[w].merged :
                          x[w].merged[i] = <<c, perControllerWork[w][c]>>}) = 1)
    /\ [][\A w \in Procs :
            (pc[w] = "write" /\ pc'[w] # "write") => pc'[w] = "unmark"]_vars

\* The writer is invoked with the merges of two controllers.
C8_Witness ==
    \E w \in Procs : pc[w] = "write" /\ Len(x[w].merged) = 2

\* C9: closing, once set, stays set; from then on no worker holds the pool
\* lock to pop or mark, the pending sequence does not shrink and the
\* in-flight set does not grow; a worker in its section goes on through
\* get, merge, write and unmark, and terminates only from the top of its
\* loop.
C9_CooperativeCancellation ==
    /\ [][closing => closing']_vars
    /\ [](closing => \A w \in Procs : pc[w] \notin {"pop", "delete"})
    /\ [][closing =>
            /\ Len(tasks') >= Len(tasks)
            /\ currentlyWorking' \subseteq currentlyWorking
            /\ \A w \in Procs :
                  /\ (pc[w] = "get" /\ pc'[w] # "get")
                        => pc'[w] \in {"merge", "unmark"}
                  /\ (pc[w] = "merge" /\ pc'[w] # "merge") => pc'[w] = "write"
                  /\ (pc[w] = "write" /\ pc'[w] # "write") => pc'[w] = "unmark"
                  /\ (pc[w] = "unmark" /\ pc'[w] # "unmark") => pc'[w] = "top"
                  /\ (pc'[w] = "none" /\ pc[w] # "none") => pc[w] = "top"]_vars
    /\ [](closing =>
            \A w \in Procs :
                /\ pc[w] = "get" => ENABLED WorkerGet(w)
                /\ pc[w] = "merge" => ENABLED WorkerMerge(w)
                /\ pc[w] = "write" => ENABLED WorkerWrite(w))

\* The flag is set while a worker is in the writer.
C9_Witness == closing /\ \E w \in Procs : pc[w] = "write"

\* C10: a worker in the getter, a merge function or the writer does not
\* hold the pool lock.
C10_IoOutsideLock ==
    \A w \in Procs : pc[w] \in {"get", "merge", "write"} => lock # w

\* One worker is in the writer while another holds the pool lock.
C10_Witness ==
    \E v, w \in Procs : v # w /\ pc[v] = "write" /\ lock = w

\* A worker has just popped a task of key k and holds it.
Popped(k) == \E w \in Procs : pc[w] = "delete" /\ KeyOf(w) = k

\* C11: with at least one worker allowed, closing never set and no Delete,
\* every key a Push appended to the pending sequence is eventually popped
\* with its task by some worker, also when the Push meets the last worker
\* leaving on an empty queue or finds the key in-flight.
C11_EventualProcessing ==
    \A k \in lockResource : Pending(k) ~> Popped(k)

\* A key was pushed again while the only worker has it in-flight.
C11_Witness ==
    \E k \in lockResource :
        Pending(k) /\ k \in currentlyWorking /\ workerCount = 1

\* The places of the pending sequence a pop may take: those whose key is
\* not in-flight, and among them those whose key still has a cache entry.
NotExcluded == {i \in 1..Len(tasks) : tasks[i] \notin currentlyWorking}
Eligible == {i \in NotExcluded : tasks[i] \in DOMAIN cache}
Least(S) == CHOOSE i \in S : \A j \in S : i <= j
PopReturns(w) == pc[w] = "pop" /\ pc'[w] # "pop"
ReturnsZero(w) ==
    /\ pc'[w] = "top"
    /\ target'[w] = ZeroResource
    /\ perControllerWork'[w] = EmptyMap
ReturnsTask(w, i) ==
    /\ pc'[w] = "delete"
    /\ target'[w] = cache[tasks[i]].cacheResource
    /\ perControllerWork'[w] = cache[tasks[i]].perControllerStatus
    /\ tasks' = RemoveAt(tasks, i)

\* C12 as stated: Pop returns the first pending key that is not excluded
\* and still has a cache entry, with that entry's snapshot and pending map,
\* and removes it; it returns the zero Resource only if there is no such
\* key.
C12_AsStated ==
    [][\A w \in Procs :
          PopReturns(w) =>
              IF Eligible = {} THEN ReturnsZero(w)
                               ELSE ReturnsTask(w, Least(Eligible))]_vars

\* C12 amended: Pop takes the first pending key that is not excluded and
\* removes it from the sequence; it returns that key's snapshot and pending
\* map if the key still has a cache entry, and the zero Resource if it has
\* none; it returns the zero Resource and leaves the sequence alone if
\* every pending key is excluded.
C12_PopFirstNotExcluded ==
    [][\A w \in Procs :
          PopReturns(w) =>
              IF NotExcluded = {}
              THEN ReturnsZero(w) /\ tasks' = tasks
              ELSE IF Least(NotExcluded) \in Eligible
                   THEN ReturnsTask(w, Least(NotExcluded))
                   ELSE /\ ReturnsZero(w)
                        /\ tasks' = RemoveAt(tasks, Least(NotExcluded))]_vars

\* A worker pops while the first key it may take has lost its cache entry
\* and a later key has one.
C12_Witness ==
    \E w \in Procs :
        /\ pc[w] = "pop"
        /\ Eligible # {}
        /\ Least(NotExcluded) \notin Eligible

\* C13 as stated: in every reachable state each key occurs at most once in
\* the pending sequence, also after Delete(K) followed by Push(K) while K
\* is pending.
C13_AsStated ==
    \A k \in lockResource : Occurrences(tasks, k) <= 1

\* C13 amended: as long as no Delete call has removed a cache entry, each
\* key occurs at most once in the pending sequence.
C13_Uniqueness ==
    ~deleted => \A k \in lockResource : Occurrences(tasks, k) <= 1

\* Without any Delete, a key in-flight was pushed again behind another key.
C13_Witness ==
    /\ ~deleted
    /\ Len(tasks) = 2
    /\ tasks[2] \in currentlyWorking

\* C14 as stated: in every reachable state every key of the pending
\* sequence has an entry in the cache.
C14_AsStated ==
    \A i \in 1..Len(tasks) : tasks[i] \in DOMAIN cache

\* C14 amended: as long as no Delete call has removed a cache entry, every
\* key of the pending sequence has an entry in the cache.
C14_SequenceImpliesEntry ==
    ~deleted => \A i \in 1..Len(tasks) : tasks[i] \in DOMAIN cache

\* Without any Delete, a worker has popped a key and removed its entry
\* while another key is pending.
C14_Witness ==
    /\ ~deleted
    /\ Len(tasks) = 1
    /\ \E w \in Procs : pc[w] = "get" /\ KeyOf(w) \notin DOMAIN cache

\* A step of WorkerPool.Push up to the end of wp.q.Push.
PushStep == \E in \in Pushes : Push(in[1], in[2], in[3])

\* A worker leaves the top of its loop.
LeavesTop(w) == pc[w] = "top" /\ pc'[w] # "top"

HolderCanStep ==
    lock # NoOne =>
        \/ pc[lock] = "pop" /\ ENABLED WorkerPop(lock)
        \/ pc[lock] = "delete" /\ ENABLED WorkerDelete(lock)

\* A goroutine that is not waiting for the pool lock can take its step, and
\* one that waits for it can take it as soon as the lock is free.
NooneStuck ==
    /\ \A w \in Procs :
          /\ pc[w] = "reserved" => ENABLED StartWorker(w)
          /\ pc[w] = "get" => ENABLED WorkerGet(w)
          /\ pc[w] = "merge" => ENABLED WorkerMerge(w)
          /\ pc[w] = "write" => ENABLED WorkerWrite(w)
          /\ (pc[w] = "top" /\ lock = NoOne) => ENABLED WorkerTop(w)
          /\ (pc[w] = "unmark" /\ lock = NoOne) => ENABLED WorkerUnmark(w)
    /\ (adding > 0 /\ lock = NoOne) => ENABLED MaybeAddWorker
    /\ (~closing /\ lock = NoOne) => ENABLED Run
    /\ \A t \in Resource : ENABLED Delete(t)

\* C16: a worker whose Pop returns the zero Resource releases the pool lock
\* and restarts its loop; the holder of the pool lock releases it after at
\* most its pop and its mark, without waiting for anything; so no state is
\* a deadlock: a worker that has finished its task, and a caller, get the
\* pool lock once it is free, and Delete, which takes the queue lock only,
\* is always possible.
C16_ProgressOnFailedPop ==
    /\ [][\A w \in Procs :
            /\ (pc[w] = "pop" /\ pc'[w] = "top") => (lock = w /\ lock' = NoOne)
            /\ (pc[w] = "pop" /\ pc'[w] = "delete") => (lock = w /\ lock' = w)
            /\ (pc[w] = "delete" /\ pc'[w] # "delete")
                  => (lock = w /\ lock' = NoOne /\ pc'[w] = "get")]_vars
    /\ [](HolderCanStep /\ NooneStuck)

\* A worker is about to pop while every pending key is in-flight and
\* another worker waits for the pool lock to remove its mark.
C16_Witness ==
    \E v, w \in Procs :
        /\ pc[w] = "pop"
        /\ Len(tasks) > 0
        /\ NotExcluded = {}
        /\ pc[v] = "unmark"

\* C17: a key enters the in-flight set when a worker marks the task it
\* popped and leaves it when that worker, past its get, merge and write,
\* removes the mark and goes back to the top of its loop; whatever the
\* getter, the generation test and the provider lookup gave, the worker
\* gets there, so no key stays in-flight for ever and a task pushed for a
\* key in-flight is pending with the mark gone.
C17_MarkCleared ==
    /\ [][\A k \in lockResource :
            /\ (k \notin currentlyWorking /\ k \in currentlyWorking')
                  => \E w \in Procs :
                        /\ pc[w] = "delete" /\ pc'[w] = "get"
                        /\ KeyOf(w) = k /\ target'[w] = target[w]
            /\ (k \in currentlyWorking /\ k \notin currentlyWorking')
                  => \E w \in Procs :
                        /\ pc[w] = "unmark" /\ pc'[w] = "top"
                        /\ KeyOf(w) = k]_vars
    /\ [][\A w \in Procs :
            /\ (InSection(w) /\ InSection(w)') => target'[w] = target[w]
            /\ (pc[w] = "unmark" /\ pc'[w] # "unmark")
                  => (pc'[w] = "top" /\ KeyOf(w) \notin currentlyWorking')]_vars
    /\ \A w \in Procs : InSection(w) ~> (pc[w] = "top")
    /\ \A k \in lockResource :
          /\ (k \in currentlyWorking) ~> (k \notin currentlyWorking)
          /\ (Pending(k) /\ k \in currentlyWorking)
                ~> (Pending(k) /\ k \notin currentlyWorking)

\* The getter returned nothing for a task whose key was pushed again in
\* the meantime; the worker has yet to remove the mark.
C17_Witness ==
    \E w \in Procs :
        /\ pc[w] = "unmark"
        /\ cfg[w].isNil
        /\ Pending(KeyOf(w))
        /\ KeyOf(w) \in DOMAIN cache

\* C18: a step of WorkerPool.Delete(R) removes the cache entry of R's key
\* and nothing else: the other entries, the pending sequence, the in-flight
\* set, the worker count, closing, the pool lock and every worker's
\* position and locals stay as they are; a worker that has popped a task
\* of R's key goes on through get, merge and write with what it popped.
C18_DeleteFrame ==
    /\ [][\A t \in Resource :
            Delete(t) =>
                /\ DOMAIN cache' = DOMAIN cache \ {convert(t)}
                /\ \A k \in DOMAIN cache' : cache'[k] = cache[k]
                /\ tasks' = tasks
                /\ currentlyWorking' = currentlyWorking
                /\ workerCount' = workerCount
                /\ closing' = closing
                /\ lock' = lock
                /\ pc' = pc
                /\ target' = target
                /\ perControllerWork' = perControllerWork
                /\ cfg' = cfg
                /\ x' = x]_vars
    /\ [](\A w \in Procs :
            KeyOf(w) \notin DOMAIN cache =>
                /\ pc[w] = "get" => ENABLED WorkerGet(w)
                /\ pc[w] = "merge" => ENABLED WorkerMerge(w)
                /\ pc[w] = "write" => ENABLED WorkerWrite(w))
    /\ [][\A w \in Procs :
            /\ (pc[w] = "merge" /\ pc'[w] # "merge") => pc'[w] = "write"
            /\ (pc[w] \in {"get", "merge"} /\ pc'[w] \in {"merge", "write"})
                  => perControllerWork'[w] = perControllerWork[w]]_vars

\* A key in the writer was pushed again and then deleted: it is pending
\* without cache entry while the worker still holds what it popped.
C18_Witness ==
    \E w \in Procs :
        /\ deleted
        /\ pc[w] = "write"
        /\ Pending(KeyOf(w))
        /\ KeyOf(w) \notin DOMAIN cache
        /\ MapKeys(perControllerWork[w]) # {}

\* The worker's wp.q.Delete(target) after its Pop.
DeletesPopped(w) == pc[w] = "delete" /\ pc'[w] = "get"

\* C19: the entry a worker deletes after its Pop is the entry whose task
\* it popped, so every update pushed for the key since the Pop and since
\* the last Delete of the key is in the pending map the worker holds.
C19_NoUpdateLost ==
    [][\A w \in Procs :
          DeletesPopped(w) =>
              /\ KeyOf(w) \in DOMAIN cache => w \in aliased
              /\ \A c \in Controllers :
                    pushed[KeyOf(w)][c] # Nil
                        => perControllerWork[w][c] = pushed[KeyOf(w)][c]]_vars

\* C20: with the pool lock free, workerCount is the number of live worker
\* goroutines plus the workers counted but not yet started; it never goes
\* below 0, so it never wraps around; the in-flight set is no larger than
\* workerCount, and each in-flight key is held by exactly one live worker.
C20_Bookkeeping ==
    /\ [](lock = NoOne =>
            /\ workerCount = Cardinality(LiveWorkers) + Cardinality(Reserved)
            /\ Cardinality(currentlyWorking) <= workerCount
            /\ \A k \in currentlyWorking :
                  Cardinality({w \in LiveWorkers :
                                  InSection(w) /\ KeyOf(w) = k}) = 1)
    /\ [][workerCount' < workerCount
            => (workerCount >= 1 /\ workerCount' = workerCount - 1)]_vars
    /\ [][workerCount' > workerCount
            => (workerCount' = workerCount + 1 /\ workerCount' <= maxWorkers)]_vars

\* With the lock free, one worker is at work on a key and a second one is
\* counted but not yet started.
C20_Witness ==
    /\ lock = NoOne
    /\ workerCount = 2
    /\ Cardinality(Reserved) = 1
    /\ Cardinality(currentlyWorking) = 1

Init ==
    /\ tasks = <<>>
    /\ cache = NoCache
    /\ closing = FALSE
    /\ workerCount = 0
    /\ maxWorkers \in 0..MaxWorkersBound
    /\ currentlyWorking = {}
    /\ lock = NoOne
    /\ pc = [w \in Procs |-> "none"]
    /\ target = [w \in Procs |-> ZeroResource]
    /\ perControllerWork = [w \in Procs |-> EmptyMap]
    /\ aliased = {}
    /\ cfg = [w \in Procs |-> NilCfg]
    /\ x = [w \in Procs |-> NoStatus]
    /\ adding = 0
    /\ pushed = [k \in lockResource |-> EmptyRun]
    /\ fresh = [k \in lockResource |-> FALSE]
    /\ lastTarget = [k \in lockResource |-> ZeroResource]
    /\ delPending = [k \in lockResource |-> FALSE]
    /\ deleted = FALSE

Next ==
    \/ \E in \in Workload(maxWorkers) : Push(in[1], in[2], in[3])
    \/ MaybeAddWorker
    \/ \E w \in Procs : StartWorker(w)
    \/ \E t \in {in[1] : in \in Pushes} : Delete(t)
    \/ Run
    \/ \E w \in Procs : WorkerTop(w)
    \/ \E w \in Procs : WorkerPop(w)
    \/ \E w \in Procs : WorkerDelete(w)
    \/ \E w \in Procs : WorkerGet(w)
    \/ \E w \in Procs : WorkerMerge(w)
    \/ \E w \in Procs : WorkerWrite(w)
    \/ \E w \in Procs : WorkerUnmark(w)

Spec == Init /\ [][Next]_vars

\* ------------------------------------------------- fair specifications
\* The scheduler runs every goroutine that can take a step, and sync.Mutex
\* hands the pool lock to a goroutine that keeps waiting for it: a step that
\* begins with wp.lock.Lock() is taken if it is possible again and again.
\* Callers are free to stop pushing, and the context need never be done.
Fairness ==
    /\ SF_vars(MaybeAddWorker)
    /\ \A w \in Procs :
          /\ WF_vars(StartWorker(w))
          /\ SF_vars(WorkerTop(w))
          /\ WF_vars(WorkerPop(w))
          /\ WF_vars(WorkerDelete(w))
          /\ WF_vars(WorkerGet(w))
          /\ WF_vars(WorkerMerge(w))
          /\ WF_vars(WorkerWrite(w))
          /\ SF_vars(WorkerUnmark(w))

\* A pool with at least one worker whose context is never done and on which
\* Delete is never called.
ServingInit == Init /\ maxWorkers >= 1

ServingNext ==
    \/ \E in \in PlainPushes : Push(in[1], in[2], in[3])
    \/ MaybeAddWorker
    \/ \E w \in Procs : StartWorker(w)
    \/ \E w \in Procs : WorkerTop(w)
    \/ \E w \in Procs : WorkerPop(w)
    \/ \E w \in Procs : WorkerDelete(w)
    \/ \E w \in Procs : WorkerGet(w)
    \/ \E w \in Procs : WorkerMerge(w)
    \/ \E w \in Procs : WorkerWrite(w)
    \/ \E w \in Procs : WorkerUnmark(w)

ServingSpec == ServingInit /\ [][ServingNext]_vars /\ Fairness

\* The pool with Run and Delete, under the same fairness: two resources for
\* up to one worker, one resource for more.
OnePush == {<<Res("a", "1"), "c1", "p">>}
PoolWorkload(mw) == IF mw <= 1 THEN PlainPushes ELSE OnePush

PoolNext ==
    \/ \E in \in PoolWorkload(maxWorkers) : Push(in[1], in[2], in[3])
    \/ MaybeAddWorker
    \/ \E w \in Procs : StartWorker(w)
    \/ \E t \in {in[1] : in \in PoolWorkload(maxWorkers)} : Delete(t)
    \/ Run
    \/ \E w \in Procs : WorkerTop(w)
    \/ \E w \in Procs : WorkerPop(w)
    \/ \E w \in Procs : WorkerDelete(w)
    \/ \E w \in Procs : WorkerGet(w)
    \/ \E w \in Procs : WorkerMerge(w)
    \/ \E w \in Procs : WorkerWrite(w)
    \/ \E w \in Procs : WorkerUnmark(w)

PoolSpec == Init /\ [][PoolNext]_vars /\ Fairness
====
